---------------------------- MODULE Spec2Model ----------------------------
(***************************************************************************)
(* Model of a2a_multiagent/models/task.py: the pydantic records of the     *)
(* Agent2Agent task protocol (TextPart, Message, TaskStatus, Task,         *)
(* TaskIdParams, TaskQueryParams, TaskSendParams).                         *)
(*                                                                         *)
(* The module holds declarations only; what runs is pydantic's generated   *)
(* constructor of each class.  The model gives every field declaration the *)
(* meaning pydantic 2 gives it in its default (lax, non-frozen) mode:      *)
(*   str            accepts a str, and decodes bytes as UTF-8;             *)
(*   int            accepts an int, and parses a decimal string;           *)
(*   Literal[...]   accepts exactly the listed strings;                    *)
(*   X | None       accepts None or X;                                     *)
(*   List[M]        accepts a list and builds a NEW list of the validated  *)
(*                  items;                                                 *)
(*   M (a model)    accepts an instance of M as it is (same object, not    *)
(*                  copied, not revalidated) or a dict, from which a new   *)
(*                  instance is built;                                     *)
(*   default_factory is called in each construction that omits the field.  *)
(* Objects live on a heap and are named by address, so that aliasing of    *)
(* instances and in-place assignment can be observed.                      *)
(***************************************************************************)
EXTENDS Integers, Sequences, FiniteSets, TLC

VARIABLES
    heap,      \* the objects constructed so far; an address is an index
    held,      \* the addresses the caller holds: the results of its calls
    clock,     \* the reading datetime.now() would return
    regressed, \* whether the wall clock has ever been set back
    stamps,    \* the defaulted timestamps, in the order of their constructions
    drawn,     \* the uuid4() results so far, each with the record it went to
    dumped,    \* the latest model_dump(): the address dumped and the result
    calls,     \* the number of constructions the caller has made
    writes,    \* the number of in-place changes the caller has made
    last       \* the latest operation: its name, arguments and outcome

vars == <<heap, held, clock, regressed, stamps, drawn, dumped, calls, writes, last>>

-----------------------------------------------------------------------------
(* Bounds of the model *)

MaxCalls == 2
MaxWrites == 1
MaxLen == 2
MaxClock == 2

-----------------------------------------------------------------------------
(* Python values.  A model instance or a caller-held list is a reference    *)
(* into the heap; everything else is a value.  A dict is a function from    *)
(* the field names to values, with Missing for a key that is absent.        *)

Str(s) == [k |-> "str", v |-> s]
Bytes(s) == [k |-> "bytes", v |-> s]
BadBytes == [k |-> "badbytes"]
Num(n) == [k |-> "int", v |-> n]
Datetime(n) == [k |-> "datetime", v |-> n]
None == [k |-> "none"]
Missing == [k |-> "missing"]
Ref(a) == [k |-> "ref", v |-> a]
List(s) == [k |-> "list", v |-> s]
Dict(f) == [k |-> "dict", v |-> f]

Obj(c, f) == [cls |-> c, f |-> f]
ListObj(s) == Obj("list", [items |-> s])

IsInstance(h, v, c) == v.k = "ref" /\ v.v \in 1..Len(h) /\ h[v.v].cls = c

Ok(v, h) == [ok |-> TRUE, val |-> v, heap |-> h]
Fail(h) == [ok |-> FALSE, val |-> None, heap |-> h]

\* A new object is placed at the next free address.
Alloc(h, o) == Ok(Ref(Len(h) + 1), Append(h, o))

\* A keyword argument, or a key of a dict: Missing when it is not given.
Get(kw, name) == IF name \in DOMAIN kw THEN kw[name] ELSE Missing

-----------------------------------------------------------------------------
(* Field validators *)

\* A field declared Literal[...] with the listed values not checked.
ValidateLiteralAnyStr(v, allowed) == IF v.k = "str" THEN Ok(v, <<>>) ELSE Fail(<<>>)

\* Literal["text"], Literal["user", "agent"]: exactly the listed strings.
ValidateLiteral(v, allowed) ==
    IF v.k = "str" /\ v.v \in allowed THEN Ok(v, <<>>) ELSE Fail(<<>>)

\* A field declared str: a str is kept, bytes are decoded as UTF-8.
ValidateStr(v) ==
    CASE v.k = "str" -> Ok(v, <<>>)
      [] v.k = "bytes" -> Ok(Str(v.v), <<>>)
      [] OTHER -> Fail(<<>>)

\* The decimal texts int() parses here, with the number each denotes.
DecimalText == <<"0", "1", "2", "3", "4", "5">>

IsDecimal(s) == \E n \in DOMAIN DecimalText : DecimalText[n] = s
StrAsInt(s) == (CHOOSE n \in DOMAIN DecimalText : DecimalText[n] = s) - 1

\* int | None = None taking whatever str it is given, unparsed.
ValidateOptionalIntNoParse(v) ==
    CASE v.k \in {"missing", "none"} -> Ok(None, <<>>)
      [] v.k \in {"int", "str"} -> Ok(v, <<>>)
      [] OTHER -> Fail(<<>>)

\* int | None = None: absent or None gives None; an int is kept; a decimal
\* string is parsed to the int it denotes.
ValidateOptionalInt(v) ==
    CASE v.k \in {"missing", "none"} -> Ok(None, <<>>)
      [] v.k = "int" -> Ok(v, <<>>)
      [] v.k = "str" /\ IsDecimal(v.v) -> Ok(Num(StrAsInt(v.v)), <<>>)
      [] OTHER -> Fail(<<>>)

\* dict[str, Any] | None = None: a dict is accepted whatever its values.
ValidateOptionalDict(v) ==
    CASE v.k \in {"missing", "none"} -> Ok(None, <<>>)
      [] v.k = "dict" -> Ok(v, <<>>)
      [] OTHER -> Fail(<<>>)

\* datetime: a datetime is kept.
ValidateDatetime(v) == IF v.k = "datetime" THEN Ok(v, <<>>) ELSE Fail(<<>>)

\* The items of a list argument: a list written in the call, or a list object.
IsListLike(h, v) == v.k = "list" \/ IsInstance(h, v, "list")
ItemsOf(h, v) == IF v.k = "list" THEN v.v ELSE h[v.v].f.items

Reversed(s) == [i \in 1..Len(s) |-> s[Len(s) + 1 - i]]

-----------------------------------------------------------------------------
(* TextPart *)

\* The object a constructor builds once its fields are validated: a new one
\* when every field is valid, none at all otherwise.
Build(h, base, cls, fields, valid) ==
    IF valid THEN Alloc(base, Obj(cls, fields)) ELSE Fail(h)

\* The discriminator: the default when it is not given.
TypeOf(kw, checked) == IF Get(kw, "type") = Missing THEN Ok(Str("text"), <<>>) ELSE checked

MakeTextPart(h, t, x) ==
    Build(h, h, "TextPart", [type |-> t.val, text |-> x.val], t.ok /\ x.ok)

\* TextPart with the discriminator left unchecked.
NewTextPartAnyType(h, kw) ==
    MakeTextPart(h, TypeOf(kw, ValidateLiteralAnyStr(Get(kw, "type"), {"text"})),
                 ValidateStr(Get(kw, "text")))

\* TextPart(**kw): type defaults to "text" and must be "text"; text is a str.
NewTextPart(h, kw) ==
    MakeTextPart(h, TypeOf(kw, ValidateLiteral(Get(kw, "type"), {"text"})),
                 ValidateStr(Get(kw, "text")))

\* A value given where a Part is expected: an instance is taken as it is, a
\* dict is made into a new TextPart.
ValidatePart(h, v) ==
    CASE IsInstance(h, v, "TextPart") -> Ok(v, h)
      [] v.k = "dict" -> NewTextPart(h, v.v)
      [] OTHER -> Fail(h)

\* The validated items of a list, from the first valid one and the rest.
Prepend(h, r, rest) ==
    IF ~rest.ok THEN Fail(h) ELSE Ok(<<r.val>> \o rest.val, rest.heap)

\* The items of a parts list, each validated in turn; one invalid item fails all.
RECURSIVE ValidateParts(_, _)
PartsFrom(h, r, tail) ==
    IF ~r.ok THEN Fail(h) ELSE Prepend(h, r, ValidateParts(r.heap, tail))
ValidateParts(h, items) ==
    IF items = <<>> THEN Ok(<<>>, h)
    ELSE PartsFrom(h, ValidatePart(h, Head(items)), Tail(items))

\* The new list a List[...] field holds.
NewListOf(h, r) == IF ~r.ok THEN Fail(h) ELSE Alloc(r.heap, ListObj(r.val))
NewListOfReversed(h, r) ==
    IF ~r.ok THEN Fail(h) ELSE Alloc(r.heap, ListObj(Reversed(r.val)))

\* List[Part] with the validated items stored in reverse.
ValidatePartListReversed(h, v) ==
    IF ~IsListLike(h, v) THEN Fail(h)
    ELSE NewListOfReversed(h, ValidateParts(h, ItemsOf(h, v)))

\* List[Part]: every item validated, in order, into a new list.
ValidatePartList(h, v) ==
    IF ~IsListLike(h, v) THEN Fail(h)
    ELSE NewListOf(h, ValidateParts(h, ItemsOf(h, v)))

-----------------------------------------------------------------------------
(* Message *)

MakeMessage(h, r, p) ==
    Build(h, p.heap, "Message", [role |-> r.val, parts |-> p.val], r.ok /\ p.ok)

\* Message(**kw): role is "user" or "agent"; parts is a list of Parts.
NewMessage(h, kw) ==
    MakeMessage(h, ValidateLiteral(Get(kw, "role"), {"user", "agent"}),
                ValidatePartList(h, Get(kw, "parts")))

ValidateMessage(h, v) ==
    CASE IsInstance(h, v, "Message") -> Ok(v, h)
      [] v.k = "dict" -> NewMessage(h, v.v)
      [] OTHER -> Fail(h)

\* The items of a history with the invalid ones left out.
RECURSIVE ValidateMessagesSkipInvalid(_, _)
MessagesFromSkipInvalid(h, r, tail) ==
    IF ~r.ok THEN ValidateMessagesSkipInvalid(h, tail)
    ELSE Prepend(h, r, ValidateMessagesSkipInvalid(r.heap, tail))
ValidateMessagesSkipInvalid(h, items) ==
    IF items = <<>> THEN Ok(<<>>, h)
    ELSE MessagesFromSkipInvalid(h, ValidateMessage(h, Head(items)), Tail(items))

\* The items of a history, each validated in turn; one invalid item fails all.
RECURSIVE ValidateMessages(_, _)
MessagesFrom(h, r, tail) ==
    IF ~r.ok THEN Fail(h) ELSE Prepend(h, r, ValidateMessages(r.heap, tail))
ValidateMessages(h, items) ==
    IF items = <<>> THEN Ok(<<>>, h)
    ELSE MessagesFrom(h, ValidateMessage(h, Head(items)), Tail(items))

\* The caller's own list kept as the field's list when all its items are
\* Messages already.
KeptOrNewListOf(h, v, r) ==
    IF ~r.ok THEN Fail(h)
    ELSE IF v.k = "ref" /\ r.val = ItemsOf(h, v) THEN Ok(v, h)
    ELSE Alloc(r.heap, ListObj(r.val))

\* List[Message] that keeps the caller's list object.
ValidateMessageListShared(h, v) ==
    IF ~IsListLike(h, v) THEN Fail(h)
    ELSE KeptOrNewListOf(h, v, ValidateMessages(h, ItemsOf(h, v)))

\* List[Message]: every item validated, in order, into a new list.
ValidateMessageList(h, v) ==
    IF ~IsListLike(h, v) THEN Fail(h)
    ELSE NewListOf(h, ValidateMessages(h, ItemsOf(h, v)))

-----------------------------------------------------------------------------
(* TaskState, TaskStatus *)

TaskState == {"submitted", "working", "input-required", "completed",
              "canceled", "failed", "unknown"}

\* state checked against the TaskState values.
ValidateStateEnum(v) ==
    IF v.k = "str" /\ v.v \in TaskState THEN Ok(v, <<>>) ELSE Fail(<<>>)

\* state: str, with no reference to TaskState.
ValidateState(v) == ValidateStr(v)

\* A default taken once, when the class is defined.
DefaultTimestampAtImport(now) == Datetime(0)

\* Field(default_factory=datetime.now): the clock is read in the construction.
DefaultTimestamp(now) == Datetime(now)

MakeTaskStatus(h, s, t) ==
    Build(h, h, "TaskStatus", [state |-> s.val, timestamp |-> t.val], s.ok /\ t.ok)

\* TaskStatus(**kw); now is what datetime.now() returns in this construction.
NewTaskStatus(h, kw, now) ==
    MakeTaskStatus(h, ValidateState(Get(kw, "state")),
                   IF Get(kw, "timestamp") = Missing THEN Ok(DefaultTimestamp(now), <<>>)
                   ELSE ValidateDatetime(Get(kw, "timestamp")))

\* A status instance whose timestamp is brought up to date as it is validated.
Restamped(h, v, now) == Ok(v, [h EXCEPT ![v.v].f.timestamp = Datetime(now)])

ValidateStatusRestamping(h, v, now) ==
    CASE IsInstance(h, v, "TaskStatus") -> Restamped(h, v, now)
      [] v.k = "dict" -> NewTaskStatus(h, v.v, now)
      [] OTHER -> Fail(h)

\* A value given where a TaskStatus is expected: an instance is taken as it
\* is, a dict is made into a new TaskStatus.
ValidateStatus(h, v, now) ==
    CASE IsInstance(h, v, "TaskStatus") -> Ok(v, h)
      [] v.k = "dict" -> NewTaskStatus(h, v.v, now)
      [] OTHER -> Fail(h)

-----------------------------------------------------------------------------
(* Task *)

MakeTask(h, i, s, m) ==
    Build(h, m.heap, "Task", [id |-> i.val, status |-> s.val, history |-> m.val],
          i.ok /\ s.ok /\ m.ok)

TaskWithStatus(h, kw, i, s) ==
    MakeTask(h, i, s, ValidateMessageList(s.heap, Get(kw, "history")))

\* Task(**kw): the fields are validated in the order declared; the Task is
\* built only when all three are valid.
NewTask(h, kw, now) ==
    TaskWithStatus(h, kw, ValidateStr(Get(kw, "id")),
                   ValidateStatus(h, Get(kw, "status"), now))

\* model_dump(): a model becomes a dict of its dumped fields, a list a list of
\* its dumped items; any other value is kept.
RECURSIVE Dump(_, _)
Dump(h, v) ==
    IF v.k # "ref" THEN v
    ELSE LET o == h[v.v]
         IN  IF o.cls = "list"
             THEN List([i \in 1..Len(o.f.items) |-> Dump(h, o.f.items[i])])
             ELSE Dict([n \in DOMAIN o.f |-> Dump(h, o.f[n])])

\* A dump that leaves the timestamp of the status out.
ModelDumpNoTimestamp(h, a) ==
    LET d == Dump(h, Ref(a))
    IN  Dict([d.v EXCEPT !["status"] = Dict([d.v.status.v EXCEPT !["timestamp"] = Missing])])

ModelDump(h, a) == Dump(h, Ref(a))

-----------------------------------------------------------------------------
(* TaskIdParams, TaskQueryParams, TaskSendParams *)

MakeTaskIdParams(h, i, m) ==
    Build(h, h, "TaskIdParams", [id |-> i.val, metadata |-> m.val], i.ok /\ m.ok)

\* TaskIdParams(**kw): id is required; metadata is a dict or None.
NewTaskIdParams(h, kw) ==
    MakeTaskIdParams(h, ValidateStr(Get(kw, "id")),
                     ValidateOptionalDict(Get(kw, "metadata")))

MakeTaskQueryParams(h, i, m, n) ==
    Build(h, h, "TaskQueryParams",
          [id |-> i.val, metadata |-> m.val, historyLength |-> n.val],
          i.ok /\ m.ok /\ n.ok)

\* TaskQueryParams(TaskIdParams): the inherited fields, then historyLength.
NewTaskQueryParams(h, kw) ==
    MakeTaskQueryParams(h, ValidateStr(Get(kw, "id")),
                        ValidateOptionalDict(Get(kw, "metadata")),
                        ValidateOptionalInt(Get(kw, "historyLength")))

HexDigit == <<"0", "1", "2", "3", "4", "5", "6", "7", "8", "9",
              "a", "b", "c", "d", "e", "f">>

\* UUID.hex: two lower-case hexadecimal digits for each of the 16 bytes.
RECURSIVE Hex(_)
Hex(bytes) ==
    IF bytes = <<>> THEN ""
    ELSE HexDigit[(Head(bytes) \div 16) + 1] \o HexDigit[(Head(bytes) % 16) + 1]
         \o Hex(Tail(bytes))

\* uuid4(): 16 random bytes with the version (4) and the variant (10) set.
Uuid4(e) ==
    [i \in 1..16 |-> IF i = 7 THEN (e[i] % 16) + 64
                     ELSE IF i = 9 THEN (e[i] % 64) + 128
                     ELSE e[i]]

\* What os.urandom(16) may return: four of its values are drawn from.
RandomByte == {0, 90, 165, 255}
Entropy == {[i \in 1..16 |-> b] : b \in RandomByte}

\* A default taken once, when the class is defined.
DefaultSessionIdAtImport(e) == Str(Hex(Uuid4([i \in 1..16 |-> 0])))

\* Field(default_factory=lambda: uuid4().hex): called in the construction.
DefaultSessionId(e) == Str(Hex(Uuid4(e)))

MakeTaskSendParams(h, i, s, m, n, d) ==
    Build(h, m.heap, "TaskSendParams",
          [id |-> i.val, sessionId |-> s.val, message |-> m.val,
           historyLength |-> n.val, metadata |-> d.val],
          i.ok /\ s.ok /\ m.ok /\ n.ok /\ d.ok)

\* TaskSendParams(**kw); e is what os.urandom gives when uuid4() is called.
NewTaskSendParams(h, kw, e) ==
    MakeTaskSendParams(h, ValidateStr(Get(kw, "id")),
                       IF Get(kw, "sessionId") = Missing THEN Ok(DefaultSessionId(e), <<>>)
                       ELSE ValidateStr(Get(kw, "sessionId")),
                       ValidateMessage(h, Get(kw, "message")),
                       ValidateOptionalInt(Get(kw, "historyLength")),
                       ValidateOptionalDict(Get(kw, "metadata")))

-----------------------------------------------------------------------------
(* The caller: what it constructs, and what it gives the constructors *)

SeqsUpTo(S, n) == UNION {[1..m -> S] : m \in 0..n}

Addrs(h, c) == {a \in 1..Len(h) : h[a].cls = c}
Refs(h, c) == {Ref(a) : a \in Addrs(h, c)}

\* The instances of a class the caller holds, and the one it made last.
Held(h, c) == {Ref(a) : a \in Addrs(h, c) \cap held}
Latest(h, c) ==
    LET S == Addrs(h, c) \cap held
    IN  IF S = {} THEN {} ELSE {Ref(CHOOSE a \in S : \A b \in S : b <= a)}

\* The lists of at most n valid items, and those with one invalid item put
\* first or last.
Lists(good, n) == {List(s) : s \in SeqsUpTo(good, n)}
ListsWith(bad, good, n) ==
    UNION {{List(Append(s, bad)), List(<<bad>> \o s)} : s \in SeqsUpTo(good, n - 1)}

\* The addresses an object refers to, and all those reachable from it (a Task
\* reaches its parts in four steps).
Children(h, a) ==
    IF h[a].cls = "list"
    THEN {h[a].f.items[i].v : i \in {j \in 1..Len(h[a].f.items) : h[a].f.items[j].k = "ref"}}
    ELSE {h[a].f[n].v : n \in {m \in DOMAIN h[a].f : h[a].f[m].k = "ref"}}
Grow(h, S) == S \cup UNION {Children(h, a) : a \in S}
Reach(h, a) == Grow(h, Grow(h, Grow(h, Grow(h, {a}))))

Call(op, kw, r) ==
    [op |-> op, kw |-> kw, ok |-> r.ok, ref |-> r.val, pre |-> Len(heap), now |-> clock]

\* One constructor call: the object is returned to the caller, or the call
\* raises ValidationError and nothing of it is left.
Constructed(op, kw, r) ==
    /\ calls < MaxCalls
    /\ calls' = calls + 1
    /\ heap' = r.heap
    /\ held' = IF r.ok THEN held \cup {r.val.v} ELSE held
    /\ last' = Call(op, kw, r)

TypeIn == {Missing, Str("text"), Str("image")}
TextIn == {Str("hello"), Bytes("bye"), Num(7), Missing}

TextPartCtor ==
    \E t \in TypeIn, x \in TextIn :
        LET kw == [type |-> t, text |-> x]
        IN  /\ Constructed("TextPart", kw, NewTextPart(heap, kw))
            /\ UNCHANGED <<clock, regressed, stamps, drawn, dumped, writes>>

RoleIn == {Str("user"), Str("agent"), Str("system")}
GoodPart == Dict([text |-> Str("bye")])
BadPart == Dict([type |-> Str("image"), text |-> Str("bye")])
PartIn(h) == Latest(h, "TextPart") \cup {GoodPart}
PartsIn(h) ==
    Lists(PartIn(h), MaxLen) \cup ListsWith(BadPart, PartIn(h), MaxLen)
        \cup ListsWith(Num(7), {GoodPart}, 1) \cup {Missing}

MessageCtor ==
    \E r \in RoleIn, p \in PartsIn(heap) :
        LET kw == [role |-> r, parts |-> p]
        IN  /\ Constructed("Message", kw, NewMessage(heap, kw))
            /\ UNCHANGED <<clock, regressed, stamps, drawn, dumped, writes>>

StateIn == {Str("completed"), Str("bogus"), Bytes("working"), BadBytes, Num(7)}
TimestampIn == {Missing, Datetime(1), None}

TaskStatusCtor ==
    \E s \in StateIn, t \in TimestampIn :
        LET kw == [state |-> s, timestamp |-> t]
            r == NewTaskStatus(heap, kw, clock)
        IN  /\ Constructed("TaskStatus", kw, r)
            /\ stamps' = IF r.ok /\ t = Missing
                         THEN Append(stamps, heap'[r.val.v].f.timestamp.v)
                         ELSE stamps
            /\ UNCHANGED <<clock, regressed, drawn, dumped, writes>>

\* The wall clock moves on.
Tick ==
    /\ clock < MaxClock
    /\ clock' = clock + 1
    /\ UNCHANGED <<heap, held, regressed, stamps, drawn, dumped, calls, writes, last>>

\* The wall clock is set back: an adjustment of the system time, or the end
\* of daylight saving time (datetime.now() is the naive local time).
SetBack ==
    /\ clock > 0
    /\ \E c \in 0..(clock - 1) : clock' = c
    /\ regressed' = TRUE
    /\ UNCHANGED <<heap, held, stamps, drawn, dumped, calls, writes, last>>

TaskIdIn == {Str("t1"), Bytes("t1"), Num(7)}
StampedStatus == Dict([state |-> Str("submitted"), timestamp |-> Datetime(1)])
BadStatus == Dict([state |-> Num(7)])
StatusIn(h) == Latest(h, "TaskStatus") \cup {StampedStatus, BadStatus}
GoodMessage == Dict([role |-> Str("user"), parts |-> List(<<Dict([text |-> Str("hello")])>>)])
OtherMessage == Dict([role |-> Str("agent"), parts |-> List(<<>>)])
BadMessage == Dict([role |-> Str("system"), parts |-> List(<<>>)])
MessageIn == {GoodMessage, OtherMessage}
HistoryIn ==
    Lists(MessageIn, MaxLen) \cup ListsWith(BadMessage, {GoodMessage}, MaxLen)
        \cup {Missing}

\* Task(id=..., status=..., history=...) from data written in the call.
TaskCtor ==
    \E i \in TaskIdIn, s \in StatusIn(heap), m \in HistoryIn :
        LET kw == [id |-> i, status |-> s, history |-> m]
        IN  /\ Constructed("Task", kw, NewTask(heap, kw, clock))
            /\ UNCHANGED <<clock, regressed, stamps, drawn, dumped, writes>>

\* Task(**dump) from the latest dump.
TaskFromDump ==
    /\ dumped.of # 0
    /\ Constructed("Task", dumped.val.v, NewTask(heap, dumped.val.v, clock))
    /\ UNCHANGED <<clock, regressed, stamps, drawn, dumped, writes>>

\* task.model_dump() of the Task the caller made last.
DumpTask ==
    \E t \in Latest(heap, "Task") :
        /\ dumped.of # t.v
        /\ dumped' = [of |-> t.v, val |-> ModelDump(heap, t.v)]
        /\ UNCHANGED <<heap, held, clock, regressed, stamps, drawn, calls, writes, last>>

\* The caller writes a list of its messages: msgs = [m, ...]
NewList ==
    \E s \in SeqsUpTo(Latest(heap, "Message"), MaxLen) :
        LET r == Alloc(heap, ListObj(s))
        IN  /\ Held(heap, "list") = {}
            /\ heap' = r.heap
            /\ held' = held \cup {r.val.v}
            /\ last' = Call("list", [items |-> List(s)], r)
            /\ UNCHANGED <<clock, regressed, stamps, drawn, dumped, calls, writes>>

\* st = TaskStatus(state=..., timestamp=...) and m = Message(role=...,
\* parts=[...]) from valid data: the objects a caller makes to build Tasks of.
HeldStatusCtor ==
    \E t \in {Missing, Datetime(1)} :
        LET kw == [state |-> Str("working"), timestamp |-> t]
            r == NewTaskStatus(heap, kw, clock)
        IN  /\ Constructed("TaskStatus", kw, r)
            /\ stamps' = IF t = Missing
                         THEN Append(stamps, heap'[r.val.v].f.timestamp.v)
                         ELSE stamps
            /\ UNCHANGED <<clock, regressed, drawn, dumped, writes>>

HeldMessageCtor ==
    \E r \in {Str("user"), Str("agent")} :
        LET kw == [role |-> r, parts |-> List(<<GoodPart>>)]
        IN  /\ Constructed("Message", kw, NewMessage(heap, kw))
            /\ UNCHANGED <<clock, regressed, stamps, drawn, dumped, writes>>

\* Task(id="t1", status=st, history=msgs) from objects the caller holds.
TaskCtorHeld ==
    \E s \in Held(heap, "TaskStatus") \cup {StampedStatus},
       m \in Held(heap, "list") \cup Lists(Latest(heap, "Message"), MaxLen) :
        LET kw == [id |-> Str("t1"), status |-> s, history |-> m]
        IN  /\ Constructed("Task", kw, NewTask(heap, kw, clock))
            /\ UNCHANGED <<clock, regressed, stamps, drawn, dumped, writes>>

IdIn == {Str("t1"), Bytes("t1"), Num(7), Missing}
MetadataIn == {Missing, Dict([priority |-> Num(1)]), Str("high")}
HistoryLengthIn == {Missing, None, Num(5), Str("5"), Str("five"), List(<<Num(5)>>)}

TaskIdParamsCtor ==
    \E i \in IdIn, m \in MetadataIn :
        LET kw == [id |-> i, metadata |-> m]
        IN  /\ Constructed("TaskIdParams", kw, NewTaskIdParams(heap, kw))
            /\ UNCHANGED <<clock, regressed, stamps, drawn, dumped, writes>>

TaskQueryParamsCtor ==
    \E i \in IdIn, m \in MetadataIn, n \in HistoryLengthIn :
        LET kw == [id |-> i, metadata |-> m, historyLength |-> n]
        IN  /\ Constructed("TaskQueryParams", kw, NewTaskQueryParams(heap, kw))
            /\ UNCHANGED <<clock, regressed, stamps, drawn, dumped, writes>>

SessionIdIn == {Missing, Str("s1"), Num(7)}

\* What uuid4() may still draw: its results are taken never to repeat.
Unused == {e \in Entropy : Uuid4(e) \notin {d.uuid : d \in drawn}}

\* uuid4() is called when sessionId is omitted, whatever the other fields are.
TaskSendParamsCtor ==
    \E i \in IdIn, s \in SessionIdIn, m \in {GoodMessage, BadMessage, Missing},
       n \in {Missing, Str("five")} :
      \E e \in IF s = Missing THEN Unused ELSE {CHOOSE x \in Entropy : TRUE} :
        LET kw == [id |-> i, sessionId |-> s, message |-> m, historyLength |-> n]
            r == NewTaskSendParams(heap, kw, e)
        IN  /\ Constructed("TaskSendParams", kw, r)
            /\ drawn' = IF s = Missing
                        THEN drawn \cup {[uuid |-> Uuid4(e),
                                          to |-> IF r.ok THEN r.val.v ELSE 0]}
                        ELSE drawn
            /\ UNCHANGED <<clock, regressed, stamps, dumped, writes>>

\* obj.name = value through a reference the caller holds or reaches: the
\* models are not frozen and do not validate assignments.
AssignIn(h, name) ==
    CASE name = "state" -> {Str("failed")}
      [] name = "role" -> {Str("agent")}
      [] name = "status" -> Refs(h, "TaskStatus")

SetAttr ==
    \E via \in held :
      \E a \in Reach(heap, via), name \in {"state", "role", "status"} :
        /\ writes < MaxWrites
        /\ heap[a].cls # "list"
        /\ name \in DOMAIN heap[a].f
        /\ \E value \in AssignIn(heap, name) :
            /\ heap' = [heap EXCEPT ![a].f[name] = value]
            /\ last' = [op |-> "setattr",
                        kw |-> [via |-> via, obj |-> a, name |-> name, value |-> value],
                        ok |-> TRUE, ref |-> Ref(a), pre |-> Len(heap), now |-> clock]
        /\ writes' = writes + 1
        /\ UNCHANGED <<held, clock, regressed, stamps, drawn, dumped, calls>>

\* msgs.append(message) on a list the caller wrote, or
\* task.history.append(message) on a Task it holds.
ListAppend ==
    \E via \in held, value \in Latest(heap, "Message") :
        /\ writes < MaxWrites
        /\ heap[via].cls \in {"list", "Task"}
        /\ LET a == IF heap[via].cls = "list" THEN via ELSE heap[via].f.history.v
           IN  /\ heap' = [heap EXCEPT ![a].f.items = Append(@, value)]
               /\ last' = [op |-> "append",
                           kw |-> [via |-> via, obj |-> a, name |-> "items", value |-> value],
                           ok |-> TRUE, ref |-> Ref(a), pre |-> Len(heap), now |-> clock]
        /\ writes' = writes + 1
        /\ UNCHANGED <<held, clock, regressed, stamps, drawn, dumped, calls>>

-----------------------------------------------------------------------------
(* Specifications *)

NoCall == [op |-> "none", kw |-> [none |-> None], ok |-> FALSE, ref |-> None,
           pre |-> 0, now |-> 0]

Init ==
    /\ heap = <<>>
    /\ held = {}
    /\ clock = 0
    /\ regressed = FALSE
    /\ stamps = <<>>
    /\ drawn = {}
    /\ dumped = [of |-> 0, val |-> None]
    /\ calls = 0
    /\ writes = 0
    /\ last = NoCall

\* Parts and messages.
NextMessage == TextPartCtor \/ MessageCtor
SpecMessage == Init /\ [][NextMessage]_vars

\* Statuses against the wall clock.
NextStatus == TaskStatusCtor \/ Tick \/ SetBack
SpecStatus == Init /\ [][NextStatus]_vars

\* Tasks, from instances and from dicts, and their dumps.
NextTask == TaskStatusCtor \/ TaskCtor \/ DumpTask \/ TaskFromDump
SpecTask == Init /\ [][NextTask]_vars

\* The request parameters.
NextParams == TaskIdParamsCtor \/ TaskQueryParamsCtor \/ TaskSendParamsCtor
SpecParams == Init /\ [][NextParams]_vars

\* Tasks built from objects the caller goes on using.
NextShared ==
    HeldStatusCtor \/ HeldMessageCtor \/ NewList \/ TaskCtorHeld \/ SetAttr \/ ListAppend
SpecShared == Init /\ [][NextShared]_vars

Next == NextMessage \/ NextStatus \/ NextTask \/ NextParams \/ NextShared
Spec == Init /\ [][Next]_vars

-----------------------------------------------------------------------------
(* Properties: parts and messages (SpecMessage) *)

\* What the caller may give as one valid part: a TextPart it holds, or the
\* data of one, a str text with the discriminator "text" or none.
PartIsValid(h, v) ==
    \/ IsInstance(h, v, "TextPart")
    \/ /\ v.k = "dict"
       /\ Get(v.v, "text").k = "str"
       /\ Get(v.v, "type") \in {Missing, Str("text")}

\* The stored part is the part given: the instance itself, or a TextPart
\* with the text of the dict.
PartMatches(h, given, stored) ==
    IF given.k = "ref" THEN stored = given
    ELSE IsInstance(h, stored, "TextPart") /\ h[stored.v].f.text = given.v.text

PartsGiven == last.kw.parts.v
PartsStored == heap[heap[last.ref.v].f.parts.v].f.items

\* C1: Message(role, parts) with a sequence of parts succeeds exactly when
\* role is "user" or "agent" and every element of parts is a valid part; the
\* Message then holds the role given and the parts in the order given.
C1_MessageValidation ==
    (last.op = "Message" /\ last.kw.parts.k = "list") =>
        /\ last.ok <=> /\ last.kw.role \in {Str("user"), Str("agent")}
                       /\ \A i \in 1..Len(PartsGiven) : PartIsValid(heap, PartsGiven[i])
        /\ last.ok =>
            /\ heap[last.ref.v].cls = "Message"
            /\ heap[last.ref.v].f.role = last.kw.role
            /\ Len(PartsStored) = Len(PartsGiven)
            /\ \A i \in 1..Len(PartsGiven) :
                   PartMatches(heap, PartsGiven[i], PartsStored[i])

\* A Message made of two different parts, the first an instance and the
\* second a dict.
C1_Witness ==
    /\ last.op = "Message" /\ last.ok
    /\ last.kw.parts.k = "list" /\ Len(PartsGiven) = 2
    /\ PartsGiven[1].k = "ref" /\ PartsGiven[2].k = "dict"
    /\ heap[PartsStored[1].v].f.text # heap[PartsStored[2].v].f.text

\* C4: TextPart(text) succeeds for every str text, and every TextPart there
\* is, however it was made, has the discriminator "text".
C4_TextPartDiscriminator ==
    /\ \A a \in 1..Len(heap) :
           heap[a].cls = "TextPart" => heap[a].f.type = Str("text")
    /\ (/\ last.op = "TextPart"
        /\ last.kw.text.k = "str"
        /\ last.kw.type \in {Missing, Str("text")}) => last.ok

\* A TextPart made from a text alone, and one made from the data of a part
\* in a Message.
C4_Witness ==
    /\ last.op = "Message" /\ last.ok
    /\ \E a, b \in 1..Len(heap) :
           /\ a # b
           /\ heap[a].cls = "TextPart" /\ heap[b].cls = "TextPart"
           /\ a \in held /\ b \notin held

-----------------------------------------------------------------------------
(* Properties: statuses (SpecStatus) *)

NonDecreasing(s) == \A i, j \in 1..Len(s) : i <= j => s[i] <= s[j]

\* C7 as stated: the defaulted timestamps never decrease from one
\* construction to a later one.
C7_AsStated == NonDecreasing(stamps)

\* C7, amended: a TaskStatus made without a timestamp carries the reading of
\* the wall clock at that construction; the defaulted timestamps never
\* decrease as long as the wall clock has not been set back.
C7_DefaultTimestamp ==
    /\ (last.op = "TaskStatus" /\ last.ok /\ last.kw.timestamp = Missing) =>
           heap[last.ref.v].f.timestamp = Datetime(last.now)
    /\ ~regressed => NonDecreasing(stamps)

\* Two defaulted timestamps, the second taken later than the first.
C7_Witness ==
    /\ ~regressed
    /\ Len(stamps) = 2 /\ stamps[1] < stamps[2]
    /\ last.op = "TaskStatus" /\ last.ok /\ last.kw.timestamp = Missing

TimestampGiven == last.op = "TaskStatus" /\ last.kw.timestamp.k \in {"missing", "datetime"}

\* C8 as stated: a TaskStatus is made exactly when state is a str.
C8_AsStated == TimestampGiven => (last.ok <=> last.kw.state.k = "str")

\* C8, amended: TaskStatus(state) fails when state is neither a str nor bytes
\* that decode as UTF-8; bytes are decoded and kept as a str; every str is
\* kept as it is, in TaskState or not, whatever statuses were made before.
C8_StateIsFreeForm ==
    TimestampGiven =>
        /\ last.ok <=> last.kw.state.k \in {"str", "bytes"}
        /\ last.ok => heap[last.ref.v].f.state = Str(last.kw.state.v)

\* A label outside TaskState accepted after a status with a terminal label.
C8_Witness ==
    /\ last.op = "TaskStatus" /\ last.ok
    /\ last.kw.state.k = "str" /\ last.kw.state.v \notin TaskState
    /\ \E a \in 1..(last.ref.v - 1) :
           heap[a].cls = "TaskStatus" /\ heap[a].f.state = Str("completed")

-----------------------------------------------------------------------------
(* Properties: request parameters (SpecParams) *)

HexChar == {"0", "1", "2", "3", "4", "5", "6", "7", "8", "9",
            "a", "b", "c", "d", "e", "f"}
IsHex32(s) == Len(s) = 32 /\ \A i \in 1..32 : SubSeq(s, i, i) \in HexChar

\* The records made without a sessionId.
Defaulted == {d.to : d \in drawn} \ {0}

\* C3: every TaskSendParams made without a sessionId has one of 32
\* hexadecimal characters, and no two of them have the same: the factory is
\* called in each construction (uuid4() being taken never to repeat).
C3_SessionIdDefault ==
    /\ \A a \in Defaulted :
           /\ heap[a].f.sessionId.k = "str"
           /\ IsHex32(heap[a].f.sessionId.v)
    /\ \A a, b \in Defaulted :
           a # b => heap[a].f.sessionId # heap[b].f.sessionId

\* Two records made without a sessionId.
C3_Witness ==
    /\ last.op = "TaskSendParams" /\ last.ok /\ last.kw.sessionId = Missing
    /\ Cardinality(Defaulted) = 2

IdGiven == last.kw.id.k \in {"str", "bytes"}
MetadataGiven == last.kw.metadata.k \in {"missing", "none", "dict"}

\* C5 as stated: a TaskQueryParams is made only when historyLength is an
\* integer or absent.
C5_AsStated ==
    (last.op = "TaskQueryParams" /\ last.ok) =>
        last.kw.historyLength.k \in {"int", "missing", "none"}

\* C5, amended: TaskQueryParams is made only when historyLength is absent,
\* None, an integer, or a decimal string, which is stored as the integer it
\* denotes; a value that denotes no integer ("five", a list) makes it fail,
\* and so does a missing id, as for TaskIdParams.
C5_HistoryLength ==
    /\ last.op = "TaskIdParams" => (last.ok <=> IdGiven /\ MetadataGiven)
    /\ last.op = "TaskQueryParams" =>
        /\ last.ok <=> /\ IdGiven /\ MetadataGiven
                       /\ last.kw.historyLength \in {Missing, None, Num(5), Str("5")}
        /\ last.ok =>
               heap[last.ref.v].f.historyLength =
                   IF last.kw.historyLength \in {Missing, None} THEN None ELSE Num(5)

\* A TaskQueryParams made from the decimal string "5".
C5_Witness ==
    /\ last.op = "TaskQueryParams" /\ last.ok
    /\ last.kw.historyLength = Str("5")
    /\ heap[last.ref.v].f.historyLength = Num(5)

-----------------------------------------------------------------------------
(* Properties: tasks (SpecTask) *)

\* What the caller may give as a valid status or message: an instance it
\* holds, or the data of one.
StatusIsValid(h, v) ==
    \/ IsInstance(h, v, "TaskStatus")
    \/ /\ v.k = "dict"
       /\ Get(v.v, "state").k \in {"str", "bytes"}
       /\ Get(v.v, "timestamp").k \in {"missing", "datetime"}

MessageIsValid(h, v) ==
    \/ IsInstance(h, v, "Message")
    \/ /\ v.k = "dict"
       /\ Get(v.v, "role") \in {Str("user"), Str("agent")}
       /\ Get(v.v, "parts").k = "list"
       /\ \A i \in 1..Len(v.v.parts.v) : PartIsValid(h, v.v.parts.v[i])

\* The stored status or message is the one given: the instance itself, or a
\* new one with the data of the dict.
StatusMatches(h, given, stored) ==
    IF given.k = "ref" THEN stored = given
    ELSE IsInstance(h, stored, "TaskStatus") /\ h[stored.v].f.state = Str(given.v.state.v)

MessageMatches(h, given, stored) ==
    IF given.k = "ref" THEN stored = given
    ELSE /\ IsInstance(h, stored, "Message")
         /\ h[stored.v].f.role = given.v.role
         /\ LET parts == h[h[stored.v].f.parts.v].f.items
            IN  /\ Len(parts) = Len(given.v.parts.v)
                /\ \A i \in 1..Len(parts) : PartMatches(h, given.v.parts.v[i], parts[i])

HistoryGiven == last.kw.history.v
HistoryStored == heap[heap[last.ref.v].f.history.v].f.items

\* All-or-nothing: a Task as the arguments describe it, or nothing of it.
TaskOrNothing ==
    /\ ~last.ok => Len(heap) = last.pre
    /\ last.ok =>
        /\ heap[last.ref.v].cls = "Task"
        /\ heap[last.ref.v].f.id = Str(last.kw.id.v)
        /\ StatusMatches(heap, last.kw.status, heap[last.ref.v].f.status)
        /\ Len(HistoryStored) = Len(HistoryGiven)
        /\ \A i \in 1..Len(HistoryGiven) :
               MessageMatches(heap, HistoryGiven[i], HistoryStored[i])

\* C2 as stated: Task(id, status, history) fails whenever id is not a str.
C2_AsStated == (last.op = "Task" /\ last.kw.id.k # "str") => ~last.ok

\* C2, amended: Task(id, status, history) fails whenever id is neither a str
\* nor bytes that decode as UTF-8, status is not a valid TaskStatus, or an
\* element of history is not a valid Message; a failing construction leaves
\* nothing, and a succeeding one gives a Task with the id (bytes decoded),
\* the status and the history, in order, that were given.
C2_TaskValidation ==
    last.op = "Task" =>
        /\ last.ok <=> /\ last.kw.id.k \in {"str", "bytes"}
                       /\ StatusIsValid(heap, last.kw.status)
                       /\ last.kw.history.k = "list"
                       /\ \A i \in 1..Len(HistoryGiven) :
                              MessageIsValid(heap, HistoryGiven[i])
        /\ TaskOrNothing

\* A Task made from a status the caller holds and two different messages.
C2_Witness ==
    /\ last.op = "Task" /\ last.ok
    /\ last.kw.status.k = "ref"
    /\ Len(HistoryGiven) = 2 /\ HistoryGiven[1] # HistoryGiven[2]

\* The fields of a Task, read through its references.
PartView(h, p) == [type |-> h[p.v].f.type, text |-> h[p.v].f.text]
MessageView(h, m) ==
    [role |-> h[m.v].f.role,
     parts |-> [i \in 1..Len(h[h[m.v].f.parts.v].f.items) |->
                    PartView(h, h[h[m.v].f.parts.v].f.items[i])]]
TaskView(h, a) ==
    [id |-> h[a].f.id,
     state |-> h[h[a].f.status.v].f.state,
     timestamp |-> h[h[a].f.status.v].f.timestamp,
     history |-> [i \in 1..Len(h[h[a].f.history.v].f.items) |->
                      MessageView(h, h[h[a].f.history.v].f.items[i])]]

\* The latest call is Task(**dump), made once the Task dumped was there.
FromDump ==
    /\ last.op = "Task"
    /\ dumped.of \in 1..last.pre
    /\ last.kw = dumped.val.v

\* C6: Task(**task.model_dump()) succeeds and gives a Task with the id, the
\* status state and timestamp, and the history, in order, of the Task dumped.
C6_RoundTrip ==
    FromDump =>
        /\ last.ok
        /\ last.ref.v # dumped.of
        /\ TaskView(heap, last.ref.v) = TaskView(heap, dumped.of)

\* A Task of two different messages made again from its dump.
C6_Witness ==
    /\ FromDump /\ last.ok
    /\ Len(TaskView(heap, dumped.of).history) = 2
    /\ TaskView(heap, dumped.of).history[1] # TaskView(heap, dumped.of).history[2]
    /\ TaskView(heap, dumped.of).timestamp # Datetime(last.now)

-----------------------------------------------------------------------------
(* Properties: records the caller goes on using (SpecShared) *)

Records == {a \in 1..Len(heap) : heap[a].cls # "list"}
Tasks == Addrs(heap, "Task")

\* C9 as stated: no step changes a field of a record there is.
C9_AsStated == [][\A a \in Records : heap'[a] = heap[a]]_vars

\* C9, amended: no construction changes a field of a record there is, the
\* records it is given included; the records are not frozen, though, and an
\* assignment by the caller changes a field in place.
C9_ConstructorsKeepRecords ==
    [][calls' = calls + 1 => \A a \in 1..Len(heap) : heap'[a] = heap[a]]_vars

\* A Task made from a status the caller holds, stamped at another time.
C9_Witness ==
    /\ last.op = "Task" /\ last.ok
    /\ last.kw.status.k = "ref"
    /\ heap[last.kw.status.v].f.timestamp # Datetime(last.now)

\* A change made in place through an object other than the Task t.
ChangedNotThrough(t) == last'.op \in {"setattr", "append"} /\ last'.kw.via # t
AppendedNotThrough(t) == last'.op = "append" /\ last'.kw.via # t

OwnListSharedInstances ==
    (last.op = "Task" /\ last.ok) =>
        /\ heap[last.ref.v].f.history.v > last.pre
        /\ last.kw.status.k = "ref" => heap[last.ref.v].f.status = last.kw.status
        /\ HistoryStored = ItemsOf(heap, last.kw.history)

=============================================================================
